---- MODULE Spec2Model ----
(***************************************************************************)
(* Model of the Revolut CSV transformer (src/src/App.tsx).                 *)
(*                                                                         *)
(* A JavaScript string is a sequence of one-character strings, so that     *)
(* split, replace, trim, includes and parseFloat are computed character by *)
(* character as the code computes them.                                    *)
(***************************************************************************)
EXTENDS Integers, Sequences, FiniteSets, TLC

\* ------------------------------------------------------------------------
\* Bounds of the model
\* ------------------------------------------------------------------------
\* longest field string handed to csvEscape in the codec specification
MaxFieldLen == 3
\* most name fragments joined into one merchant name
MaxFrags == 2
\* most data lines of an uploaded file
MaxLines == 2
\* most error messages a classification failure may add to (the code appends
\* without limit; the guards of the failing steps stop there)
MaxErrors == 1
\* most classification runs awaiting a reply at one time
MaxRuns == 1
\* most classification runs awaiting a reply at one time where runs may
\* overlap (SpecOverlap)
MaxOverlap == 2
\* names per classifier request (CHUNK in classifyWithOpenAI, where it is 40:
\* scaled down so that a run of the model has more than one batch)
CHUNK == 1

\* ------------------------------------------------------------------------
\* String primitives of the JavaScript runtime used by the code
\* ------------------------------------------------------------------------
Range(f) == {f[i] : i \in DOMAIN f}

DigitChars == <<"0","1","2","3","4","5","6","7","8","9">>
UpperChars == <<"A","B","C","D","E","F","G","H","I","J","K","L","M",
                "N","O","P","Q","R","S","T","U","V","W","X","Y","Z">>
LowerChars == <<"a","b","c","d","e","f","g","h","i","j","k","l","m",
                "n","o","p","q","r","s","t","u","v","w","x","y","z">>

IsDigit(c) == c \in Range(DigitChars)
DigitVal(c) == (CHOOSE i \in 1..10 : DigitChars[i] = c) - 1
\* the characters String.prototype.trim and the regular expression \s remove
IsSpace(c) == c \in {" ", "\t", "\n", "\r"}

LowerChar(c) ==
  IF c \in Range(UpperChars)
    THEN LowerChars[CHOOSE i \in 1..26 : UpperChars[i] = c] ELSE c
UpperChar(c) ==
  IF c \in Range(LowerChars)
    THEN UpperChars[CHOOSE i \in 1..26 : LowerChars[i] = c] ELSE c
toLowerCase(s) == [i \in 1..Len(s) |-> LowerChar(s[i])]
toUpperCase(s) == [i \in 1..Len(s) |-> UpperChar(s[i])]

RECURSIVE TrimStart(_)
TrimStart(s) ==
  IF s # << >> /\ IsSpace(Head(s)) THEN TrimStart(Tail(s)) ELSE s
RECURSIVE TrimEnd(_)
TrimEnd(s) ==
  IF s # << >> /\ IsSpace(s[Len(s)]) THEN TrimEnd(SubSeq(s, 1, Len(s) - 1)) ELSE s
trim(s) == TrimEnd(TrimStart(s))

slice(s, from, to) == SubSeq(s, from + 1, IF to < Len(s) THEN to ELSE Len(s))

\* s.includes(k)
includes(s, k) ==
  \E i \in 1..(Len(s) - Len(k) + 1) : SubSeq(s, i, i + Len(k) - 1) = k

\* s.replace(/c/g, by) for a one-character pattern c
RECURSIVE replaceAll(_, _, _)
replaceAll(s, c, by) ==
  IF s = << >> THEN << >>
  ELSE (IF Head(s) = c THEN by ELSE <<Head(s)>>) \o replaceAll(Tail(s), c, by)

\* s.replace(/\s/g, "")
RECURSIVE removeSpaces(_)
removeSpaces(s) ==
  IF s = << >> THEN << >>
  ELSE (IF IsSpace(Head(s)) THEN << >> ELSE <<Head(s)>>) \o removeSpaces(Tail(s))

\* s.split(c) for a one-character separator: the pieces between consecutive
\* occurrences of c, always at least one piece
split(s, c) ==
  LET at == {i \in 1..Len(s) : s[i] = c}
      \* position of the k-th separator; 0 and Len(s) + 1 bracket the string
      sep(k) == IF k = 0 THEN 0
                ELSE IF k > Cardinality(at) THEN Len(s) + 1
                ELSE CHOOSE i \in at : Cardinality({j \in at : j < i}) = k - 1
  IN [k \in 1..(Cardinality(at) + 1) |-> SubSeq(s, sep(k - 1) + 1, sep(k) - 1)]

\* s.split(/\r?\n/): a line ends at "\n"; one "\r" right before it is dropped
DropCR(line) ==
  IF line # << >> /\ line[Len(line)] = "\r" THEN SubSeq(line, 1, Len(line) - 1) ELSE line
splitLines(s) ==
  LET raw == split(s, "\n")
  IN [i \in 1..Len(raw) |-> IF i < Len(raw) THEN DropCR(raw[i]) ELSE raw[i]]

\* xs.join(sep)
RECURSIVE join(_, _)
join(xs, sep) ==
  IF xs = << >> THEN << >>
  ELSE IF Len(xs) = 1 THEN xs[1]
  ELSE xs[1] \o sep \o join(Tail(xs), sep)

\* xs.filter(Boolean) on strings: the empty string is falsy
filterNonEmpty(xs) == SelectSeq(xs, LAMBDA x : x # << >>)

RECURSIVE Pow10(_)
Pow10(n) == IF n = 0 THEN 1 ELSE 10 * Pow10(n - 1)

\* decimal text of a natural number
RECURSIVE NatToStr(_)
NatToStr(n) ==
  IF n < 10 THEN <<DigitChars[n + 1]>>
  ELSE NatToStr(n \div 10) \o <<DigitChars[(n % 10) + 1]>>

\* ------------------------------------------------------------------------
\* csvEscape
\* ------------------------------------------------------------------------
\* null and undefined: a one-element sequence whose element is no character
NULL == <<"null">>

csvEscapeNoDoubling(value) ==
  IF value = NULL THEN << >>
  ELSE IF \E i \in 1..Len(value) : value[i] \in {"\"", ",", "\n"}
    THEN <<"\"">> \o value \o <<"\"">>
  ELSE value

csvEscape(value) ==
  IF value = NULL THEN << >>
  ELSE IF \E i \in 1..Len(value) : value[i] \in {"\"", ",", "\n"}
    THEN <<"\"">> \o replaceAll(value, "\"", <<"\"", "\"">>) \o <<"\"">>
  ELSE value

\* ------------------------------------------------------------------------
\* fallbackParse
\* ------------------------------------------------------------------------
\* the record of one line with its columns left untrimmed
LineToRecordNoTrim(headers, line) ==
  LET cols == split(line, ",")
      last(h) == CHOOSE i \in 1..Len(headers) :
                   headers[i] = h /\ \A j \in (i + 1)..Len(headers) : headers[j] # h
  IN [h \in Range(headers) |->
        IF last(h) <= Len(cols) THEN cols[last(h)] ELSE << >>]

\* the record of one line: header name -> trimmed column; a header name that
\* occurs twice keeps the value of its last column (later assignment wins)
LineToRecord(headers, line) ==
  LET cols == split(line, ",")
      last(h) == CHOOSE i \in 1..Len(headers) :
                   headers[i] = h /\ \A j \in (i + 1)..Len(headers) : headers[j] # h
  IN [h \in Range(headers) |->
        IF last(h) <= Len(cols) THEN trim(cols[last(h)]) ELSE << >>]

fallbackParse(csvText) ==
  LET lines == filterNonEmpty(splitLines(csvText))
  IN IF lines = << >> THEN [data |-> << >>, errors |-> <<<<"E","m","p","t","y"," ","f","i","l","e">>>>]
     ELSE LET hs == split(lines[1], ",")
              headers == [i \in 1..Len(hs) |-> trim(hs[i])]
          IN [data |-> [i \in 1..(Len(lines) - 1) |-> LineToRecord(headers, lines[i + 1])],
              errors |-> << >>]

\* ------------------------------------------------------------------------
\* Categories and heuristicCategory
\* ------------------------------------------------------------------------
siteNameDefault == <<"R","e","v","o","l","u","t"," ","C","S","V"," ","T","r","a","n","s","f","o","r","m","e","r">>

categorySet ==
  << <<"G","r","o","c","e","r","i","e","s">>,
     <<"R","e","s","t","a","u","r","a","n","t","s">>,
     <<"T","r","a","n","s","p","o","r","t">>,
     <<"S","h","o","p","p","i","n","g">>,
     <<"E","n","t","e","r","t","a","i","n","m","e","n","t">>,
     <<"B","i","l","l","s">>,
     <<"H","o","u","s","i","n","g">>,
     <<"H","e","a","l","t","h">>,
     <<"T","r","a","v","e","l">>,
     <<"C","a","s","h"," ","W","i","t","h","d","r","a","w","a","l">>,
     <<"T","r","a","n","s","f","e","r","s">>,
     <<"I","n","c","o","m","e">>,
     <<"F","e","e","s">>,
     <<"O","t","h","e","r">> >>

KwIncome ==
  { <<"s","a","l","a","r","y">>,
    <<"s","t","i","p","e","n","d">>,
    <<"p","a","y","r","o","l","l">>,
    <<"b","o","n","i","f","i","c","o"," ","i","n"," ","e","n","t","r","a","t","a">> }

KwCashWithdrawal ==
  { <<"a","t","m">>,
    <<"c","a","s","h"," ","w","i","t","h","d","r","a","w","a","l">>,
    <<"p","r","e","l","i","e","v","o">> }

KwTransfers ==
  { <<"t","r","a","n","s","f","e","r">>,
    <<"b","o","n","i","f","i","c","o">>,
    <<"i","n","t","e","r","n","a","l"," ","t","r","a","n","s","f","e","r">>,
    <<"w","o","r","l","d","p","a","y">> }

KwShopping ==
  { <<"a","m","a","z","o","n">>,
    <<"z","a","l","a","n","d","o">>,
    <<"d","e","c","a","t","h","l","o","n">>,
    <<"i","k","e","a">> }

KwGroceries ==
  { <<"c","o","n","a","d">>,
    <<"c","o","o","p">>,
    <<"l","i","d","l">>,
    <<"e","u","r","o","s","p","i","n">>,
    <<"s","u","p","e","r","m","e","r","c">> }

KwRestaurants ==
  { <<"b","a","r"," ">>,
    <<"c","a","f","f","e">>,
    <<"r","i","s","t","o","r">>,
    <<"t","r","a","t","t","o","r","i","a">>,
    <<"l","o","c","a","n","d","a">>,
    <<"o","s","t","e","r","i","a">>,
    <<"p","i","z","z","a">>,
    <<"m","c","d">>,
    <<"b","u","r","g","e","r">>,
    <<"k","e","b","a","b">> }

KwTransport ==
  { <<"t","r","e","n","i","t","a","l","i","a">>,
    <<"i","t","a","l","o">>,
    <<"u","b","e","r">>,
    <<"t","a","x","i">>,
    <<"f","l","i","x","b","u","s">>,
    <<"r","y","a","n","a","i","r">>,
    <<"w","i","z","z">> }

KwEntertainment ==
  { <<"s","p","o","t","i","f","y">>,
    <<"n","e","t","f","l","i","x">>,
    <<"s","t","e","a","m">>,
    <<"p","r","i","m","e">>,
    <<"d","i","s","n","e","y">> }

KwBills ==
  { <<"e","n","e","l">>,
    <<"a","c","e","a">>,
    <<"t","i","m">>,
    <<"v","o","d","a","f","o","n","e">>,
    <<"w","i","n","d","t","r","e">>,
    <<"b","o","l","l","e","t","t","a">> }

KwHousing ==
  { <<"a","f","f","i","t","t","o">>,
    <<"r","e","n","t">>,
    <<"m","u","t","u","o">>,
    <<"m","o","r","t","g","a","g","e">> }

KwHealth ==
  { <<"f","a","r","m","a","c","i","a">>,
    <<"p","h","a","r","m","a">>,
    <<"c","l","i","n","i","c">>,
    <<"o","s","p","e","d","a","l","e">>,
    <<"d","e","n","t","a","l">> }

KwTravel ==
  { <<"h","o","t","e","l">>,
    <<"b","o","o","k","i","n","g">>,
    <<"a","i","r","b","n","b">>,
    <<"h","o","s","t","e","l">> }

KwFees ==
  { <<"f","e","e">>,
    <<"c","o","m","m","i","s","s","i","o","n">> }

\* the rules with the cash-withdrawal test moved in front of the income test

heuristicCategoryCashFirst(name) ==
  LET s == toLowerCase(IF name = NULL THEN << >> ELSE name)
      has(ks) == \E k \in ks : includes(s, k)
  IN
    IF has(KwCashWithdrawal) THEN <<"C","a","s","h"," ","W","i","t","h","d","r","a","w","a","l">>
    ELSE IF has(KwIncome) THEN <<"I","n","c","o","m","e">>
    ELSE IF has(KwTransfers) THEN <<"T","r","a","n","s","f","e","r","s">>
    ELSE IF has(KwShopping) THEN <<"S","h","o","p","p","i","n","g">>
    ELSE IF has(KwGroceries) THEN <<"G","r","o","c","e","r","i","e","s">>
    ELSE IF has(KwRestaurants) THEN <<"R","e","s","t","a","u","r","a","n","t","s">>
    ELSE IF has(KwTransport) THEN <<"T","r","a","n","s","p","o","r","t">>
    ELSE IF has(KwEntertainment) THEN <<"E","n","t","e","r","t","a","i","n","m","e","n","t">>
    ELSE IF has(KwBills) THEN <<"B","i","l","l","s">>
    ELSE IF has(KwHousing) THEN <<"H","o","u","s","i","n","g">>
    ELSE IF has(KwHealth) THEN <<"H","e","a","l","t","h">>
    ELSE IF has(KwTravel) THEN <<"T","r","a","v","e","l">>
    ELSE IF has(KwFees) THEN <<"F","e","e","s">>
    ELSE <<"O","t","h","e","r">>

\* first matching rule wins; each rule is a disjunction of has(keyword)

heuristicCategory(name) ==
  LET s == toLowerCase(IF name = NULL THEN << >> ELSE name)
      has(ks) == \E k \in ks : includes(s, k)
  IN
    IF has(KwIncome) THEN <<"I","n","c","o","m","e">>
    ELSE IF has(KwCashWithdrawal) THEN <<"C","a","s","h"," ","W","i","t","h","d","r","a","w","a","l">>
    ELSE IF has(KwTransfers) THEN <<"T","r","a","n","s","f","e","r","s">>
    ELSE IF has(KwShopping) THEN <<"S","h","o","p","p","i","n","g">>
    ELSE IF has(KwGroceries) THEN <<"G","r","o","c","e","r","i","e","s">>
    ELSE IF has(KwRestaurants) THEN <<"R","e","s","t","a","u","r","a","n","t","s">>
    ELSE IF has(KwTransport) THEN <<"T","r","a","n","s","p","o","r","t">>
    ELSE IF has(KwEntertainment) THEN <<"E","n","t","e","r","t","a","i","n","m","e","n","t">>
    ELSE IF has(KwBills) THEN <<"B","i","l","l","s">>
    ELSE IF has(KwHousing) THEN <<"H","o","u","s","i","n","g">>
    ELSE IF has(KwHealth) THEN <<"H","e","a","l","t","h">>
    ELSE IF has(KwTravel) THEN <<"T","r","a","v","e","l">>
    ELSE IF has(KwFees) THEN <<"F","e","e","s">>
    ELSE <<"O","t","h","e","r">>

\* ------------------------------------------------------------------------
\* Amount parsing: parseFloat, Math.abs, toFixed(2)
\* ------------------------------------------------------------------------
\* A number is NaN, an infinity, or the decimal (-1)^neg * mant / 10^scale
\* (neg and mant = 0 is the negative zero).  Decimals are kept exact; the
\* amounts of the model have few digits, where the nearest double prints back
\* as the same decimal.
NaN == [kind |-> "NaN", neg |-> FALSE, mant |-> 0, scale |-> 0]
Infinity(neg) == [kind |-> "Infinity", neg |-> neg, mant |-> 0, scale |-> 0]
Num(neg, mant, scale) == [kind |-> "num", neg |-> neg, mant |-> mant, scale |-> scale]

\* how many digits stand at positions i, i+1, ... of s
RECURSIVE DigitRun(_, _)
DigitRun(s, i) ==
  IF i <= Len(s) /\ IsDigit(s[i]) THEN 1 + DigitRun(s, i + 1) ELSE 0

\* the value of the n digits at positions i .. i+n-1 of s
RECURSIVE DigitsValue(_, _, _)
DigitsValue(s, i, n) ==
  IF n = 0 THEN 0 ELSE 10 * DigitsValue(s, i, n - 1) + DigitVal(s[i + n - 1])

StartsWithAt(s, i, k) ==
  i + Len(k) - 1 <= Len(s) /\ SubSeq(s, i, i + Len(k) - 1) = k

\* the exponent part e [+-] digits read at position q of t: the power of ten
\* it names, and 0 when there is no such part (an "e" without digits is not read)
Exponent(t, q) ==
  LET hasE == q <= Len(t) /\ t[q] \in {"e", "E"}
      hasSign == hasE /\ q + 1 <= Len(t) /\ t[q + 1] \in {"+", "-"}
      es == IF hasSign THEN q + 2 ELSE q + 1
      ev == IF hasE THEN DigitsValue(t, es, DigitRun(t, es)) ELSE 0
  IN IF hasSign /\ t[q + 1] = "-" THEN 0 - ev ELSE ev

\* the decimal literal digits [. digits] | . digits, with its exponent part,
\* read at position p of t
DecimalAt(t, p, neg) ==
  LET ni == DigitRun(t, p)
      hasDot == p + ni <= Len(t) /\ t[p + ni] = "."
      nf == IF hasDot THEN DigitRun(t, p + ni + 1) ELSE 0
  IN IF ni = 0 /\ nf = 0 THEN NaN
     ELSE Num(neg,
              DigitsValue(t, p, ni) * Pow10(nf) + DigitsValue(t, p + ni + 1, nf),
              nf - Exponent(t, p + ni + (IF hasDot THEN 1 + nf ELSE 0)))

\* parseFloat: skip leading white space, then read the longest prefix that is
\* a decimal literal: [+-] (Infinity | digits [. digits] | . digits) [e [+-] digits]
SignedAt(t, neg, p) ==
  IF StartsWithAt(t, p, <<"I","n","f","i","n","i","t","y">>) THEN Infinity(neg) ELSE DecimalAt(t, p, neg)
Trimmed(t) ==
  SignedAt(t, t # << >> /\ t[1] = "-", IF t # << >> /\ t[1] \in {"+", "-"} THEN 2 ELSE 1)
parseFloat(str) == Trimmed(TrimStart(str))

\* amtNum < 0 (false for NaN and for both zeros)
LessThanZero(x) ==
  \/ x.kind = "Infinity" /\ x.neg
  \/ x.kind = "num" /\ x.neg /\ x.mant > 0

\* Math.abs(amtNum || 0): NaN and both zeros are falsy and become 0
AbsOrZero(x) ==
  IF x.kind = "NaN" THEN Num(FALSE, 0, 0) ELSE [x EXCEPT !.neg = FALSE]

\* x.toFixed(2) of a non-negative number: the nearest multiple of 0.01, the
\* larger one when two are equally near; an infinity prints as "Infinity"
toFixed2(x) ==
  IF x.kind = "Infinity" THEN <<"I","n","f","i","n","i","t","y">>
  ELSE
    LET cents == IF x.scale <= 2 THEN x.mant * Pow10(2 - x.scale)
                 ELSE (2 * x.mant + Pow10(x.scale - 2)) \div (2 * Pow10(x.scale - 2))
        frac == cents % 100
    IN NatToStr(cents \div 100) \o <<".">> \o <<DigitChars[(frac \div 10) + 1], DigitChars[(frac % 10) + 1]>>

\* lines 279-281: strip white space, drop every ".", turn every "," into "."
AmountParser(raw) ==
  parseFloat(replaceAll(replaceAll(removeSpaces(raw), ".", << >>), ",", <<".">>))

\* ------------------------------------------------------------------------
\* toISODate
\* ------------------------------------------------------------------------
\* /^\d{4}-\d{2}-\d{2}$/
IsCanonicalDate(d) ==
  /\ Len(d) = 10
  /\ \A i \in {1, 2, 3, 4, 6, 7, 9, 10} : IsDigit(d[i])
  /\ d[5] = "-" /\ d[8] = "-"

\* new Date(text).toISOString().slice(0, 10) for date texts that every engine
\* reads alike: the UTC calendar date (the first ten characters of the ISO
\* text, which for a year above 9999 are "+0YYYYY-MM"), or "" for an Invalid
\* Date.
DateTexts ==
  { <<<<"0","1"," ","A","u","g"," ","2","0","2","5"," ","0","8",":","1","5",":","0","0"," ","G","M","T">>, <<"2","0","2","5","-","0","8","-","0","1">>>>,
    <<<<"F","r","i",","," ","0","1"," ","A","u","g"," ","2","0","2","5"," ","2","3",":","3","0",":","0","0"," ","G","M","T","-","0","2","0","0">>, <<"2","0","2","5","-","0","8","-","0","2">>>>,
    <<<<"+","0","1","0","0","0","0","-","0","1","-","0","1","T","0","0",":","0","0",":","0","0","Z">>, <<"+","0","1","0","0","0","0","-","0","1">>>>,
    <<<<"+","0","1","0","0","0","0","-","0","1">>, <<"+","0","1","0","0","0","0","-","0","1">>>>,
    <<<<"n","/","a">>, << >>>> }
\* (a text outside the table is an Invalid Date here; the calls of toISODate
\* on its own take what the engine makes of such a text from EngineOutcomes)
NewDateISO(text) ==
  IF \E e \in DateTexts : e[1] = text
    THEN (CHOOSE e \in DateTexts : e[1] = text)[2]
    ELSE << >>

\* toISODate returning the whole trimmed text on the fast path
toISODateUnsliced(dateStr, parsed) ==
  IF dateStr = << >> THEN << >>
  ELSE IF IsCanonicalDate(slice(trim(dateStr), 0, 10)) THEN trim(dateStr)
  ELSE parsed

\* toISODate, given what new Date(dateStr).toISOString().slice(0, 10) is
\* ("" for an Invalid Date)
toISODateGiven(dateStr, parsed) ==
  IF dateStr = << >> THEN << >>
  ELSE IF IsCanonicalDate(slice(trim(dateStr), 0, 10)) THEN slice(trim(dateStr), 0, 10)
  ELSE parsed

toISODate(dateStr) == toISODateGiven(dateStr, NewDateISO(dateStr))

\* ------------------------------------------------------------------------
\* The application state (App)
\* ------------------------------------------------------------------------
\* The status line (setStatus) is written and never read by the code: it is
\* left out.  lastEvent records what the last step did (the reply it handled,
\* the file it handed to the browser); it is not state of the program.
VARIABLES
  apiKey, source, websiteName, dateField, onlyCompleted, typeFilter,
  rawRows, errors, categoryMap,
  filteredRows, uniqueNames, transformedAll, transformedFiltered,
  reading, runs, lastEvent,
  probe, ret

settingsVars == <<apiKey, source, websiteName, dateField, onlyCompleted, typeFilter>>
uploadVars == <<rawRows, errors, categoryMap>>
memoVars == <<filteredRows, uniqueNames, transformedAll, transformedFiltered>>
asyncVars == <<reading, runs>>
appVars == <<settingsVars, uploadVars, memoVars, asyncVars, lastEvent>>
fnVars == <<probe, ret>>
vars == <<appVars, fnVars>>

kType == <<"T","y","p","e">>
kProduct == <<"P","r","o","d","u","c","t">>
kStartedDate == <<"S","t","a","r","t","e","d"," ","D","a","t","e">>
kCompletedDate == <<"C","o","m","p","l","e","t","e","d"," ","D","a","t","e">>
kDescription == <<"D","e","s","c","r","i","p","t","i","o","n">>
kAmount == <<"A","m","o","u","n","t">>
kFee == <<"F","e","e">>
kCurrency == <<"C","u","r","r","e","n","c","y">>
kState == <<"S","t","a","t","e">>
kBalance == <<"B","a","l","a","n","c","e">>

expectedHeaders ==
  <<kType, kProduct, kStartedDate, kCompletedDate, kDescription,
    kAmount, kFee, kCurrency, kState, kBalance>>

\* r[k] || ""
FieldOr(r, k) == IF k \in DOMAIN r THEN r[k] ELSE << >>

\* filteredRows with the State compared as written, without toUpperCase
FilteredRowsExactState(rows, oc) ==
  IF oc
    THEN SelectSeq(rows, LAMBDA r : DOMAIN r # {} /\ FieldOr(r, kState) = <<"C","O","M","P","L","E","T","E","D">>)
    ELSE SelectSeq(rows, LAMBDA r : DOMAIN r # {})

FilteredRows(rows, oc) ==
  LET nonEmpty == SelectSeq(rows, LAMBDA r : DOMAIN r # {})
  IN IF oc
       THEN SelectSeq(nonEmpty, LAMBDA r : toUpperCase(FieldOr(r, kState)) = <<"C","O","M","P","L","E","T","E","D">>)
       ELSE nonEmpty

\* Array.from(new Set(...)): the distinct non-empty trimmed descriptions, in
\* the order of their first row
RECURSIVE UniqueFrom(_, _)
UniqueFrom(rows, seen) ==
  IF rows = << >> THEN seen
  ELSE LET name == trim(FieldOr(Head(rows), kDescription))
       IN UniqueFrom(Tail(rows),
            IF name # << >> /\ name \notin Range(seen) THEN Append(seen, name) ELSE seen)
UniqueNames(frows) == UniqueFrom(frows, << >>)

cols ==
  << <<"D","a","t","e">>, <<"T","y","p","e">>, <<"A","m","o","u","n","t">>, <<"C","u","r","r","e","n","c","y">>, <<"C","a","t","e","g","o","r","y">>,
     <<"N","a","m","e">>, <<"A","c","c","o","u","n","t">>, <<"N","o","t","e","s">>, <<"S","o","u","r","c","e">> >>

NormalizedRow(date, type, amount, currency, category, name, account, notes, src) ==
  [c \in Range(cols) |->
     CASE c = <<"D","a","t","e">> -> date
       [] c = <<"T","y","p","e">> -> type
       [] c = <<"A","m","o","u","n","t">> -> amount
       [] c = <<"C","u","r","r","e","n","c","y">> -> currency
       [] c = <<"C","a","t","e","g","o","r","y">> -> category
       [] c = <<"N","a","m","e">> -> name
       [] c = <<"A","c","c","o","u","n","t">> -> account
       [] c = <<"N","o","t","e","s">> -> notes
       [] c = <<"S","o","u","r","c","e">> -> src]

\* the first non-empty of r[dateField], r["Completed Date"], r["Started Date"], ""
DateSource(r, df) ==
  IF FieldOr(r, df) # << >> THEN FieldOr(r, df)
  ELSE IF FieldOr(r, kCompletedDate) # << >> THEN FieldOr(r, kCompletedDate)
  ELSE FieldOr(r, kStartedDate)

\* one element of transformedAll, from the row, its parsed amount and its name
RowOf(r, amtNum, name, cm, df, src, web) ==
  NormalizedRow(
    toISODate(DateSource(r, df)),
    IF LessThanZero(amtNum) THEN <<"E","x","p","e","n","s","e">> ELSE <<"I","n","c","o","m","e">>,
    toFixed2(AbsOrZero(amtNum)),
    FieldOr(r, kCurrency),
    IF name \in DOMAIN cm /\ cm[name] # << >> THEN cm[name] ELSE heuristicCategory(name),
    name,
    IF src # << >> THEN src ELSE <<"R","e","v","o","l","u","t">>,
    << >>,
    IF web # << >> THEN web ELSE siteNameDefault)

TransformRow(r, cm, df, src, web) ==
  RowOf(r, AmountParser(IF kAmount \in DOMAIN r THEN r[kAmount] ELSE <<"0">>),
        FieldOr(r, kDescription), cm, df, src, web)

TransformedAll(frows, cm, df, src, web) ==
  [i \in 1..Len(frows) |-> TransformRow(frows[i], cm, df, src, web)]

TransformedFilteredKeepAll(all, tf) == all

TransformedFiltered(all, tf) ==
  IF tf = <<"B","o","t","h">> THEN all
  ELSE SelectSeq(all, LAMBDA r : r[<<"T","y","p","e">>] = tf)

\* what handleDownload hands to the browser
DownloadCsv(rows) ==
  LET header == join(cols, <<",">>)
      body == join([i \in 1..Len(rows) |->
                      join([j \in 1..Len(cols) |-> csvEscape(rows[i][cols[j]])], <<",">>)],
                   <<"\n">>)
  IN header \o <<"\n">> \o body \o <<"\n">>

\* ------------------------------------------------------------------------
\* classifyWithOpenAI
\* ------------------------------------------------------------------------
\* names.slice(i, i + CHUNK) for i = 0, CHUNK, 2 * CHUNK, ...
RECURSIVE Chunks(_)
Chunks(names) ==
  IF names = << >> THEN << >>
  ELSE IF Len(names) <= CHUNK THEN <<names>>
  ELSE <<SubSeq(names, 1, CHUNK)>> \o Chunks(SubSeq(names, CHUNK + 1, Len(names)))

\* The reply body (data.choices[0].message.content, trimmed) is a sequence of
\* tokens: "{" and "}", "pairs" (well-formed members "name": "category" for
\* every name of the batch), "lit" (a JSON literal that is no object, such as
\* null or 7) and "junk" (text with no brace that is no JSON).
Tokens == {"{", "}", "pairs", "lit", "junk"}
\* the reply bodies the service answers with in the model: an empty content,
\* the object alone, the object inside prose, a literal, prose without braces,
\* braces around prose, and two objects in a row
Bodies ==
  { << >>,
    <<"{", "pairs", "}">>,
    <<"junk", "{", "pairs", "}", "junk">>,
    <<"lit">>,
    <<"junk">>,
    <<"{", "junk", "}">>,
    <<"{", "pairs", "}", "{", "pairs", "}">> }

\* the category the classifier service answers for a name: a member of the
\* taxonomy that differs from the heuristic one, so that the two can be told apart
ClassifierCategory(name) ==
  IF heuristicCategory(name) = <<"O","t","h","e","r">> THEN <<"S","h","o","p","p","i","n","g">> ELSE <<"O","t","h","e","r">>

EmptyMap == [n \in {} |-> << >>]

\* JSON.parse(text): the parsed value's own enumerable properties, or a SyntaxError
JsonParse(text, group) ==
  IF text = <<"{", "pairs", "}">>
    THEN [ok |-> TRUE, obj |-> [n \in Range(group) |-> ClassifierCategory(n)]]
  ELSE IF text = <<"{", "}">> \/ text = <<"lit">>
    THEN [ok |-> TRUE, obj |-> EmptyMap]
  ELSE [ok |-> FALSE, obj |-> EmptyMap]

\* text.match(/\{[\s\S]*\}/): from the first "{" to the last "}" after it
HasBraceMatch(text) ==
  \E i, j \in 1..Len(text) : i < j /\ text[i] = "{" /\ text[j] = "}"
BraceMatch(text) ==
  LET i == CHOOSE a \in 1..Len(text) : text[a] = "{" /\ \A b \in 1..(a - 1) : text[b] # "{"
      j == CHOOSE a \in 1..Len(text) : text[a] = "}" /\ \A b \in (a + 1)..Len(text) : text[b] # "}"
  IN SubSeq(text, i, j)

\* Object.assign(mapping, obj)
Assign(mapping, obj) ==
  [n \in DOMAIN mapping \cup DOMAIN obj |-> IF n \in DOMAIN obj THEN obj[n] ELSE mapping[n]]

\* lines 121-132 for one batch: the mapping afterwards, or the exception thrown
HandleBody(mapping, group, body) ==
  LET text == IF body = << >> THEN <<"{", "}">> ELSE body
      strict == JsonParse(text, group)
  IN IF strict.ok THEN [threw |-> FALSE, mapping |-> Assign(mapping, strict.obj)]
     ELSE IF HasBraceMatch(text)
       THEN LET inner == JsonParse(BraceMatch(text), group)
            IN IF inner.ok THEN [threw |-> FALSE, mapping |-> Assign(mapping, inner.obj)]
               ELSE [threw |-> TRUE, mapping |-> mapping]
     ELSE [threw |-> FALSE,
           mapping |-> Assign(mapping, [n \in Range(group) |-> heuristicCategory(n)])]

\* ------------------------------------------------------------------------
\* The uploaded files
\* ------------------------------------------------------------------------
HeaderLine ==
  <<"T","y","p","e",",","P","r","o","d","u","c","t",",","S","t","a","r","t","e","d"," ","D","a","t","e",",","C","o","m","p","l","e","t","e","d"," ","D","a","t","e",",","D","e","s","c","r","i","p","t","i","o","n",",","A","m","o","u","n","t",",","F","e","e",",","C","u","r","r","e","n","c","y",",","S","t","a","t","e",",","B","a","l","a","n","c","e">>

\* the example row of the README
ExampleLine ==
  <<"C","A","R","D","_","P","A","Y","M","E","N","T",",","C","a","r","d",",","2","0","2","5","-","0","8","-","0","1"," ","0","8",":","1","5",",","2","0","2","5","-","0","8","-","0","1"," ","0","8",":","1","5",",","C","O","N","A","D"," ","S","U","P","E","R","M","A","R","K","E","T",",","-","4","7",",","3","0",",",",","E","U","R",",","C","O","M","P","L","E","T","E","D",",","1","2","3","4",",","5","6">>

SampleLines ==
  << ExampleLine,
     <<"T","O","P","U","P",",","C","u","r","r","e","n","t",",","2","0","2","5","-","0","8","-","0","2"," ","1","0",":","0","0",",","2","0","2","5","-","0","8","-","0","2"," ","1","0",":","0","0",",","S","a","l","a","r","y"," ","A","C","M","E",",","1","5","0","0",",","0",",","E","U","R",",","C","O","M","P","L","E","T","E","D",",","1","5","0","0">>,
     <<"C","A","R","D","_","P","A","Y","M","E","N","T",",","C","a","r","d",",","2","0","2","5","-","0","8","-","0","3"," ","0","9",":","0","0",",",",","U","b","e","r",",","-","1","2",".","5",",","0",",","E","U","R",",","P","E","N","D","I","N","G",",","9","0">>,
     <<"C","A","R","D","_","P","A","Y","M","E","N","T",",","C","a","r","d",",","n","/","a",",","n","/","a",",","M","y","s","t","e","r","y"," ","S","h","o","p",",","-","I","n","f","i","n","i","t","y",",","0",",","E","U","R",",","c","o","m","p","l","e","t","e","d",",","9","0">> >>

FileOf(lines) == join(<<HeaderLine>> \o lines, <<"\n">>) \o <<"\n">>

\* the files that hold up to MaxLines of the given lines, in their order
FilesOver(lines) ==
  LET choices == {ix \in UNION {[1..n -> 1..Len(lines)] : n \in 0..MaxLines} :
                    \A i \in 1..(Len(ix) - 1) : ix[i] < ix[i + 1]}
  IN {FileOf([i \in 1..Len(ix) |-> lines[ix[i]]]) : ix \in choices}

\* the sample files, an empty file and a file of another schema
Files ==
  FilesOver(SampleLines) \cup { << >>, <<"D","a","t","e",",","A","m","o","u","n","t","\n","2","0","2","5","-","0","8","-","0","1",",","5","\n">> }

\* the files of the second and third sample line: one completed and one
\* pending row, with two merchant names
SessionFiles == FilesOver(SubSeq(SampleLines, 2, 3))

ExampleFile == FileOf(<<ExampleLine>>)

\* ------------------------------------------------------------------------
\* Messages
\* ------------------------------------------------------------------------
MsgNoKey == <<"P","l","e","a","s","e"," ","a","d","d"," ","y","o","u","r"," ","L","L","M"," ","A","P","I"," ","k","e","y"," ","i","n"," ","S","e","t","t","i","n","g","s",".">>
\* `OpenAI API error: ${res.status} ${text}` of a 500 response with an empty body
MsgApiError == <<"O","p","e","n","A","I"," ","A","P","I"," ","e","r","r","o","r",":"," ","5","0","0"," ">>
\* the message of the SyntaxError JSON.parse throws
MsgSyntaxError == <<"U","n","e","x","p","e","c","t","e","d"," ","t","o","k","e","n"," ","i","n"," ","J","S","O","N">>
MsgParsingIssues(errs) == <<"P","a","r","s","i","n","g"," ","i","s","s","u","e","s",":"," ">> \o join(errs, <<" ","|"," ">>)
MsgMissing(missing, headers) ==
  <<"M","i","s","s","i","n","g"," ","e","x","p","e","c","t","e","d"," ","c","o","l","u","m","n","s",":"," ">> \o join(missing, <<","," ">>) \o <<"."," ","G","o","t",":"," ">> \o join(headers, <<","," ">>)

\* ------------------------------------------------------------------------
\* Rendering: the useMemo values follow the state they depend on
\* ------------------------------------------------------------------------
Memo(frows, all, tf) ==
  /\ filteredRows' = frows
  /\ uniqueNames' = UniqueNames(frows)
  /\ transformedAll' = all
  /\ transformedFiltered' = TransformedFiltered(all, tf)
RenderFiltered(frows, cm, df, src, web, tf) ==
  Memo(frows, TransformedAll(frows, cm, df, src, web), tf)
Render(rows, oc, cm, df, src, web, tf) ==
  RenderFiltered(FilteredRows(rows, oc), cm, df, src, web, tf)

NoEvent == [type |-> "none"]
NoProbe == [fn |-> "none"]
NotDone == [done |-> FALSE]

\* the two labels of the settings form keep their defaults (their inputs are
\* not modelled)
InitApp ==
  /\ apiKey = << >>
  /\ source = <<"R","e","v","o","l","u","t">>
  /\ websiteName = siteNameDefault
  /\ dateField = kCompletedDate
  /\ onlyCompleted = TRUE
  /\ typeFilter = <<"B","o","t","h">>
  /\ rawRows = << >>
  /\ errors = << >>
  /\ categoryMap = EmptyMap
  /\ filteredRows = << >>
  /\ uniqueNames = << >>
  /\ transformedAll = << >>
  /\ transformedFiltered = << >>
  /\ reading = 0
  /\ runs = EmptyMap
  /\ lastEvent = NoEvent

Init ==
  /\ InitApp
  /\ probe = NoProbe
  /\ ret = NotDone

\* ------------------------------------------------------------------------
\* Settings
\* ------------------------------------------------------------------------
ApiKeys == { << >>, <<"s","k">> }
DateFields == { kCompletedDate, kStartedDate }
TypeFilters == { <<"B","o","t","h">>, <<"E","x","p","e","n","s","e">>, <<"I","n","c","o","m","e">> }

setApiKey ==
  /\ \E k \in ApiKeys : apiKey' = k
  /\ lastEvent' = NoEvent
  /\ UNCHANGED <<source, websiteName, dateField, onlyCompleted, typeFilter,
                 uploadVars, memoVars, asyncVars, fnVars>>

setDateField ==
  /\ \E v \in DateFields : dateField' = v
  /\ Render(rawRows, onlyCompleted, categoryMap, dateField', source, websiteName, typeFilter)
  /\ lastEvent' = NoEvent
  /\ UNCHANGED <<apiKey, source, websiteName, onlyCompleted, typeFilter,
                 uploadVars, asyncVars, fnVars>>

setOnlyCompleted ==
  /\ \E v \in BOOLEAN : onlyCompleted' = v
  /\ Render(rawRows, onlyCompleted', categoryMap, dateField, source, websiteName, typeFilter)
  /\ lastEvent' = NoEvent
  /\ UNCHANGED <<apiKey, source, websiteName, dateField, typeFilter,
                 uploadVars, asyncVars, fnVars>>

\* the Type select is rendered with the table, when filteredRows is not empty
setTypeFilter ==
  /\ filteredRows # << >>
  /\ \E v \in TypeFilters : typeFilter' = v
  /\ Render(rawRows, onlyCompleted, categoryMap, dateField, source, websiteName, typeFilter')
  /\ lastEvent' = NoEvent
  /\ UNCHANGED <<apiKey, source, websiteName, dateField, onlyCompleted,
                 uploadVars, asyncVars, fnVars>>

\* ------------------------------------------------------------------------
\* Upload, Reset, Download
\* ------------------------------------------------------------------------
\* the pending runs after the category map has been emptied: no run is
\* cancelled, each goes on awaiting its reply (`cleared` is history: the map
\* was emptied by an upload or by Reset since the run began)
AfterClear(rs) == [id \in DOMAIN rs |-> [rs[id] EXCEPT !.cleared = TRUE]]

\* onFileSelected up to its await of file.text()
onFileSelected ==
  /\ reading = 0
  /\ errors' = << >>
  /\ categoryMap' = EmptyMap
  /\ reading' = reading + 1
  /\ Render(rawRows, onlyCompleted, categoryMap', dateField, source, websiteName, typeFilter)
  /\ runs' = AfterClear(runs)
  /\ lastEvent' = NoEvent
  /\ UNCHANGED <<settingsVars, rawRows, fnVars>>

\* the errors onFileSelected appends for a file text
UploadErrors(text, parsed) ==
  LET hs == split(splitLines(text)[1], ",")
      headers == [i \in 1..Len(hs) |-> trim(hs[i])]
      missing == SelectSeq(expectedHeaders, LAMBDA h : h \notin Range(headers))
  IN (IF parsed.errors # << >>
        THEN <<MsgParsingIssues(slice(parsed.errors, 0, 3))>>
        ELSE << >>)
     \o (IF missing # << >> THEN <<MsgMissing(missing, headers)>> ELSE << >>)

\* what onFileSelected computes from the text of each file (PapaRef is null:
\* the optional import is absent and fallbackParse decodes the file)
Uploads ==
  [text \in Files |->
     LET parsed == fallbackParse(text)
     IN [data |-> parsed.data, errors |-> UploadErrors(text, parsed)]]

\* onFileSelected after file.text() has resolved with the text of a file
onFileTextFrom(files) ==
  /\ reading > 0
  /\ \E text \in files :
       /\ errors' = errors \o Uploads[text].errors
       /\ rawRows' = Uploads[text].data
  /\ reading' = reading - 1
  /\ Render(rawRows', onlyCompleted, categoryMap, dateField, source, websiteName, typeFilter)
  /\ lastEvent' = NoEvent
  /\ UNCHANGED <<settingsVars, categoryMap, runs, fnVars>>

onFileText == onFileTextFrom(Files)
onSessionFileText == onFileTextFrom(SessionFiles)

\* the Reset button
Reset ==
  /\ rawRows' = << >>
  /\ errors' = << >>
  /\ categoryMap' = EmptyMap
  /\ Render(rawRows', onlyCompleted, categoryMap', dateField, source, websiteName, typeFilter)
  /\ runs' = AfterClear(runs)
  /\ lastEvent' = NoEvent
  /\ UNCHANGED <<settingsVars, reading, fnVars>>

\* the Download CSV button is rendered when filteredRows is not empty
handleDownload ==
  /\ filteredRows # << >>
  /\ lastEvent' = [type |-> "download", csv |-> DownloadCsv(transformedFiltered),
                   rows |-> transformedFiltered]
  /\ UNCHANGED <<settingsVars, uploadVars, memoVars, asyncVars, fnVars>>

\* ------------------------------------------------------------------------
\* Classification: handleClassify and the batches of classifyWithOpenAI
\* ------------------------------------------------------------------------
\* the Classify with LLM button is rendered with the table and enabled when
\* there are names and a key
ClassifyButtonEnabled ==
  filteredRows # << >> /\ uniqueNames # << >> /\ apiKey # << >>

ActiveRuns == DOMAIN runs

Without(f, x) == [y \in DOMAIN f \ {x} |-> f[y]]
With(f, x, v) == [y \in DOMAIN f \cup {x} |-> IF y = x THEN v ELSE f[y]]

\* the category map after the catch block of handleClassify has run for a
\* failed run whose local mapping is `mapping`: setCategoryMap is not reached
MapAfterFailureKeepPartial(cm, mapping) == Assign(cm, mapping)

MapAfterFailure(cm, mapping) == cm

\* the category map with the result of a run merged into it
MapAfterSuccessMerged(cm, mapping) == Assign(cm, mapping)

\* the category map after setCategoryMap(map) with the result of a run
MapAfterSuccess(cm, mapping) == mapping

\* how lines 121-132 treat a reply body: parsed strictly, recovered from its
\* brace match, degraded to the heuristics, or thrown out of by JSON.parse
ReplyKind(body, group) ==
  LET text == IF body = << >> THEN <<"{", "}">> ELSE body
      inner == IF HasBraceMatch(text) THEN JsonParse(BraceMatch(text), group)
               ELSE [ok |-> FALSE, obj |-> EmptyMap]
  IN [strict |-> JsonParse(text, group).ok,
      brace |-> HasBraceMatch(text),
      inner |-> inner.ok,
      obj |-> IF JsonParse(text, group).ok THEN JsonParse(text, group).obj ELSE inner.obj]

\* a missing key passing for a key
KeyNeverMissing(key) == FALSE

\* !apiKey
KeyMissing(key) == key = << >>

\* handleClassify up to the first await of classifyWithOpenAI, with at most
\* maxRuns calls pending at a time
handleClassifyUpTo(maxRuns) ==
  IF KeyMissing(apiKey)
    THEN /\ Len(errors) < MaxErrors
         /\ errors' = Append(errors, MsgNoKey)
         /\ lastEvent' = [type |-> "noKey", mapBefore |-> categoryMap,
                          rowsBefore |-> rawRows, errorsBefore |-> errors]
         /\ UNCHANGED <<settingsVars, rawRows, categoryMap, memoVars, asyncVars, fnVars>>
  ELSE IF Chunks(uniqueNames) = << >>
    THEN /\ categoryMap' = MapAfterSuccess(categoryMap, EmptyMap)
         /\ Render(rawRows, onlyCompleted, categoryMap', dateField, source,
                   websiteName, typeFilter)
         /\ lastEvent' = [type |-> "complete", run |-> 0, chunks |-> << >>,
                          kinds |-> << >>, mapBefore |-> categoryMap,
                          cleared |-> FALSE]
         /\ UNCHANGED <<settingsVars, rawRows, errors, asyncVars, fnVars>>
  ELSE /\ Cardinality(ActiveRuns) < maxRuns
       /\ LET id == CHOOSE i \in 1..maxRuns : i \notin ActiveRuns
          IN /\ runs' = With(runs, id,
                             [chunks |-> Chunks(uniqueNames), k |-> 1,
                              mapping |-> EmptyMap, kinds |-> << >>,
                              cleared |-> FALSE])
             /\ lastEvent' = [type |-> "request", run |-> id, k |-> 1]
       /\ UNCHANGED <<settingsVars, rawRows, errors, categoryMap, memoVars,
                      reading, fnVars>>

handleClassify == handleClassifyUpTo(MaxRuns)

\* a run ends with an exception: the catch block of handleClassify
Fail(id, cause, message, kinds) ==
  /\ Len(errors) < MaxErrors
  /\ runs' = Without(runs, id)
  /\ errors' = Append(errors, message)
  /\ categoryMap' = MapAfterFailure(categoryMap, runs[id].mapping)
  /\ Render(rawRows, onlyCompleted, categoryMap', dateField, source, websiteName, typeFilter)
  /\ lastEvent' = [type |-> "failed", cause |-> cause, run |-> id, k |-> runs[id].k,
                   chunks |-> runs[id].chunks, mapping |-> runs[id].mapping,
                   kinds |-> kinds,
                   mapBefore |-> categoryMap, errorsBefore |-> errors]
  /\ UNCHANGED <<settingsVars, rawRows, reading, fnVars>>

\* the reply to the request in flight of a run is not ok (or fetch rejects)
ReplyNotOk ==
  \E id \in ActiveRuns : Fail(id, "http", MsgApiError, runs[id].kinds)

\* the reply to the request in flight of a run is ok and carries `body`
ReplyOk ==
  \E id \in ActiveRuns, body \in Bodies :
    LET run == runs[id]
        group == run.chunks[run.k]
        res == HandleBody(run.mapping, group, body)
        kinds == Append(run.kinds, ReplyKind(body, group))
    IN IF res.threw
         THEN Fail(id, "parse", MsgSyntaxError, kinds)
       ELSE IF run.k < Len(run.chunks)
         THEN \* the next batch is requested
              /\ runs' = With(runs, id, [run EXCEPT !.k = run.k + 1,
                                                    !.mapping = res.mapping,
                                                    !.kinds = kinds])
              /\ lastEvent' = [type |-> "request", run |-> id, k |-> run.k + 1]
              /\ UNCHANGED <<settingsVars, uploadVars, memoVars, reading, fnVars>>
       ELSE \* classifyWithOpenAI returns; setCategoryMap(map)
            /\ runs' = Without(runs, id)
            /\ categoryMap' = MapAfterSuccess(categoryMap, res.mapping)
            /\ Render(rawRows, onlyCompleted, categoryMap', dateField, source,
                      websiteName, typeFilter)
            /\ lastEvent' = [type |-> "complete", run |-> id, chunks |-> run.chunks,
                             kinds |-> kinds, mapBefore |-> categoryMap,
                             cleared |-> run.cleared]
            /\ UNCHANGED <<settingsVars, rawRows, errors, reading, fnVars>>

ClickClassify == ClassifyButtonEnabled /\ handleClassify

\* the button stays enabled while a run is pending (its disabled attribute
\* reads uniqueNames and apiKey only): a click with up to MaxOverlap calls
\* of handleClassify pending at a time
ClickClassifyAgain == ClassifyButtonEnabled /\ handleClassifyUpTo(MaxOverlap)

Next ==
  \/ setApiKey
  \/ setDateField
  \/ setOnlyCompleted
  \/ setTypeFilter
  \/ onFileSelected
  \/ onFileText
  \/ Reset
  \/ handleDownload
  \/ ClickClassify
  \/ ReplyNotOk
  \/ ReplyOk

\* the whole application
Spec == Init /\ [][Next]_vars

\* The transformation pipeline alone: every file and every setting the
\* pipeline reads, without classification runs.  Its behaviours are
\* behaviours of Spec.
NextPipeline ==
  \/ setDateField
  \/ setOnlyCompleted
  \/ setTypeFilter
  \/ onFileSelected
  \/ onFileText
  \/ Reset
  \/ handleDownload

SpecPipeline == Init /\ [][NextPipeline]_vars

\* The classification session alone: uploads of the session files, the key,
\* the completed-only switch and the classification runs.  Its behaviours
\* are behaviours of Spec.
NextSession ==
  \/ setApiKey
  \/ setOnlyCompleted
  \/ onFileSelected
  \/ onSessionFileText
  \/ Reset
  \/ ClickClassify
  \/ ReplyNotOk
  \/ ReplyOk

SpecSession == Init /\ [][NextSession]_vars

\* The handlers of a session called on their own, handleClassify also while
\* its button is disabled or not rendered (without a key, without names).
NextHandlers ==
  \/ setApiKey
  \/ onFileSelected
  \/ onSessionFileText
  \/ handleClassify
  \/ ReplyNotOk
  \/ ReplyOk

SpecHandlers == Init /\ [][NextHandlers]_vars

\* Uploads of the session files, the key and classification runs that may
\* overlap: Classify may be clicked again while a run awaits a reply.
NextOverlap ==
  \/ setApiKey
  \/ onFileSelected
  \/ onSessionFileText
  \/ ClickClassifyAgain
  \/ ReplyNotOk
  \/ ReplyOk

SpecOverlap == Init /\ [][NextOverlap]_vars

\* ------------------------------------------------------------------------
\* The pure functions, each applied to an input drawn from a bounded set
\* ------------------------------------------------------------------------
FieldChars == {"a", " ", ",", "\"", "\n", "\r"}
Fields == UNION {[1..n -> FieldChars] : n \in 0..MaxFieldLen}

NameFrags ==
  { <<"S","a","l","a","r","y">>, <<"A","C","M","E">>, <<"C","o","n","a","d">>, <<"S","u","p","e","r","s","t","o","r","e">>, <<"U","b","e","r">>, <<"A","T","M">>, <<"A","m","a","z","o","n">>,
    <<"B","o","n","i","f","i","c","o">>, <<"B","a","r">>, <<"N","e","t","f","l","i","x">>, <<"T","i","m","b","e","r">>, <<"f","e","e">>, <<"X","y","z">> }
Names ==
  {join(fs, <<" ">>) : fs \in UNION {[1..n -> NameFrags] : n \in 0..MaxFrags}}

\* an amount of money: sign, whole units and hundredths
AmountWholes == {0, 47, 1234, 20500}
AmountFracs == {0, 30, 56}
Amounts == [neg : BOOLEAN, whole : AmountWholes, frac : AmountFracs]

\* the digits of n in groups of three
RECURSIVE Grouped(_, _)
Grouped(n, groupSep) ==
  IF n < 1000 THEN NatToStr(n)
  ELSE Grouped(n \div 1000, groupSep) \o <<groupSep>>
         \o <<DigitChars[((n % 1000) \div 100) + 1], DigitChars[((n % 100) \div 10) + 1],
              DigitChars[(n % 10) + 1]>>
FormatAmount(a, groupSep, decimalSep) ==
  (IF a.neg THEN <<"-">> ELSE << >>) \o Grouped(a.whole, groupSep) \o <<decimalSep>>
    \o <<DigitChars[(a.frac \div 10) + 1], DigitChars[(a.frac % 10) + 1]>>
\* 1.234,56 and 1,234.56
FormatEU(a) == FormatAmount(a, ".", ",")
FormatUS(a) == FormatAmount(a, ",", ".")

\* date texts: a canonical date, a date with impossible month and day, and
\* two texts in no ISO form, each with or without leading white space and a
\* time after it; the texts of DateTexts; the empty and the blank string
DatePrefixes == { << >>, <<" ">> }
DateCores == { <<"2","0","2","5","-","0","8","-","0","1">>, <<"2","0","2","5","-","9","9","-","9","9">>, <<"2","0","2","5","/","0","8","/","0","1">>, <<"1"," ","A","u","g"," ","2","5">> }
DateSuffixes == { << >>, <<" ","2","3",":","5","9",":","0","0">>, <<"T","0","8",":","1","5">> }
DateInputs ==
  {p \o c \o x : p \in DatePrefixes, c \in DateCores, x \in DateSuffixes}
    \cup {e[1] : e \in DateTexts} \cup { << >>, <<" ">> }

\* what new Date(text).toISOString().slice(0, 10) may be: the table's answer
\* for a text of DateTexts; for any other text the engine's own reading,
\* which is an Invalid Date or some calendar date (a local time may fall on
\* the UTC day before)
EngineOutcomes(text) ==
  IF \E e \in DateTexts : e[1] = text THEN {NewDateISO(text)}
  ELSE { << >>, <<"2","0","2","5","-","0","8","-","0","1">>, <<"2","0","2","5","-","0","7","-","3","1">> }

Probes ==
  [fn : {"csvEscape"}, arg : Fields \cup {NULL}]
    \cup [fn : {"roundTrip"}, arg : Fields]
    \cup [fn : {"heuristicCategory"}, arg : Names \cup {NULL}]
    \cup [fn : {"amount"}, arg : Amounts]
    \cup [fn : {"toISODate"}, arg : DateInputs]

InitFn ==
  /\ InitApp
  /\ probe \in Probes
  /\ ret = NotDone

Returned(v) ==
  /\ ~ret.done
  /\ ret' = [done |-> TRUE, value |-> v]
  /\ UNCHANGED <<appVars, probe>>

callCsvEscape ==
  probe.fn = "csvEscape" /\ Returned(csvEscape(probe.arg))

\* the field is encoded as the only column of a one-line table under the
\* header Name, and the table is decoded again
kName == <<"N","a","m","e">>
callRoundTrip ==
  probe.fn = "roundTrip"
    /\ Returned(fallbackParse(kName \o <<"\n">> \o csvEscape(probe.arg)).data)

callHeuristicCategory ==
  probe.fn = "heuristicCategory" /\ Returned(heuristicCategory(probe.arg))

callAmountParser ==
  probe.fn = "amount"
    /\ Returned([eu |-> AmountParser(FormatEU(probe.arg)),
                 us |-> AmountParser(FormatUS(probe.arg))])

\* toISODate(arg), and toISODate of its result
SecondPass(parsed, once) ==
  Returned([parsed |-> parsed, once |-> once, twice |-> toISODate(once)])
callToISODate ==
  /\ probe.fn = "toISODate"
  /\ \E parsed \in EngineOutcomes(probe.arg) :
       SecondPass(parsed, toISODateGiven(probe.arg, parsed))

NextFn ==
  \/ callCsvEscape
  \/ callRoundTrip
  \/ callHeuristicCategory
  \/ callAmountParser
  \/ callToISODate

SpecFn == InitFn /\ [][NextFn]_vars

\* ========================================================================
\* Properties
\* ========================================================================
\* x and y are the same number (the two zeros are equal)
NumEq(x, y) ==
  /\ x.kind = "num"
  /\ y.kind = "num"
  /\ LET low == IF x.scale < y.scale THEN x.scale ELSE y.scale
     IN x.mant * Pow10(y.scale - low) = y.mant * Pow10(x.scale - low)
  /\ (x.mant # 0 => x.neg = y.neg)

\* the lines of a text that ends every line with "\n"
LinesOf(text) ==
  LET pieces == split(text, "\n")
  IN IF pieces[Len(pieces)] = << >> THEN SubSeq(pieces, 1, Len(pieces) - 1) ELSE pieces

\* the encoding of one exported row
EncodedRow(row) == join([j \in 1..Len(cols) |-> csvEscape(row[cols[j]])], <<",">>)

\* C1: the text handed over by a download has exactly one line per exported
\* row and no header: when there are rows its first line is the encoding of
\* the first row, and no download starts with the list of column names.
DownloadHasNoHeader ==
  lastEvent.type = "download" =>
    LET lines == LinesOf(lastEvent.csv)
    IN /\ Len(lines) = Len(lastEvent.rows)
       /\ (lastEvent.rows # << >> => lines[1] = EncodedRow(lastEvent.rows[1]))
       /\ (lines # << >> => lines[1] # join(cols, <<",">>))

\* C2: the README's example file, decoded by fallbackParse, filtered with
\* onlyCompleted and transformed with the Completed Date, is exactly the one
\* normalized row 2025-08-01, Expense, 47.30, EUR, Groceries,
\* CONAD SUPERMARKET, Revolut, (no notes), websiteName.
ExampleRowNormalized ==
  (rawRows = Uploads[ExampleFile].data /\ onlyCompleted /\ dateField = kCompletedDate)
    => transformedAll =
         << NormalizedRow(<<"2","0","2","5","-","0","8","-","0","1">>, <<"E","x","p","e","n","s","e">>, <<"4","7",".","3","0">>, <<"E","U","R">>, <<"G","r","o","c","e","r","i","e","s">>,
                          <<"C","O","N","A","D"," ","S","U","P","E","R","M","A","R","K","E","T">>, <<"R","e","v","o","l","u","t">>, << >>, websiteName) >>

\* C3: an amount written in the EU form (1.234,56) and in the US form
\* (1,234.56) parses to the same number, the amount that was written.
EuAndUsFormsParseAlike ==
  (probe.fn = "amount" /\ ret.done) =>
    LET intended == Num(probe.arg.neg, probe.arg.whole * 100 + probe.arg.frac, 2)
    IN /\ NumEq(ret.value.eu, intended)
       /\ NumEq(ret.value.us, intended)
       /\ NumEq(ret.value.eu, ret.value.us)

\* digits, a point and exactly two digits
IsTwoDecimalText(t) ==
  /\ Len(t) >= 4
  /\ t[Len(t) - 2] = "."
  /\ \A i \in (1..Len(t)) \ {Len(t) - 2} : IsDigit(t[i])

\* the amount cell of a raw row as the transformation reads it
AmountCell(r) == IF kAmount \in DOMAIN r THEN r[kAmount] ELSE <<"0">>

\* C4: every row that passes the completion filter has one normalized row,
\* whose Type is Expense exactly when the parsed amount is below zero and
\* Income otherwise, and whose Amount is the absolute value of the parsed
\* amount (zero when it does not parse) written with exactly two fractional
\* digits.
TypeAndAmountFollowSign ==
  /\ Len(transformedAll) = Len(filteredRows)
  /\ \A i \in 1..Len(filteredRows) :
       LET x == AmountParser(AmountCell(filteredRows[i]))
           row == transformedAll[i]
       IN /\ row[<<"T","y","p","e">>] = (IF LessThanZero(x) THEN <<"E","x","p","e","n","s","e">> ELSE <<"I","n","c","o","m","e">>)
          /\ IsTwoDecimalText(row[<<"A","m","o","u","n","t">>])
          /\ (x.kind = "NaN" => row[<<"A","m","o","u","n","t">>] = <<"0",".","0","0">>)
          /\ ((x.kind = "num" /\ x.scale <= 2)
                => NumEq(parseFloat(row[<<"A","m","o","u","n","t">>]), AbsOrZero(x)))

\* the positions of the rows of a given Type
RowsOfType(all, t) == {i \in 1..Len(all) : all[i][<<"T","y","p","e">>] = t}

\* view holds exactly the rows of all that the filter tf selects, in their order
ViewSelects(all, view, tf) ==
  IF tf = <<"B","o","t","h">> THEN view = all
  ELSE LET idx == RowsOfType(all, tf)
           nth(k) == CHOOSE i \in idx : Cardinality({j \in idx : j < i}) = k - 1
       IN /\ Len(view) = Cardinality(idx)
          /\ \A k \in 1..Len(view) : view[k] = all[nth(k)]
          /\ Cardinality(RowsOfType(all, <<"E","x","p","e","n","s","e">>))
               + Cardinality(RowsOfType(all, <<"I","n","c","o","m","e">>)) = Len(all)

\* C5: after every step the filtered view holds exactly the rows of
\* transformedAll whose Type the type filter names, in their order (all of
\* them, equal to transformedAll, under Both), and a step that changes the
\* type filter leaves transformedAll as it was.
TypeFilterSelectsView ==
  [][ /\ ViewSelects(transformedAll', transformedFiltered', typeFilter')
      /\ (typeFilter' # typeFilter => transformedAll' = transformedAll) ]_vars

TypeFilterHidesIncome ==
  /\ typeFilter = <<"E","x","p","e","n","s","e">>
  /\ RowsOfType(transformedAll, <<"E","x","p","e","n","s","e">>) # {}
  /\ RowsOfType(transformedAll, <<"I","n","c","o","m","e">>) # {}
  /\ Len(transformedFiltered) = Cardinality(RowsOfType(transformedAll, <<"E","x","p","e","n","s","e">>))

\* no JSON could be read from the reply: it is no JSON as a whole, and it has
\* no brace match that is JSON
Unrecoverable(kind) == ~kind.strict /\ ~kind.inner

\* C6: a reply from which no JSON can be read never fails the run (also when
\* a brace match is found that is no JSON); when the run completes, the names
\* of such a batch have their heuristic category and the names the other
\* replies classified have the classifier's category.
UnreadableReplyDegrades ==
  /\ (lastEvent.type = "failed" /\ lastEvent.cause = "parse")
       => ~Unrecoverable(lastEvent.kinds[Len(lastEvent.kinds)])
  /\ lastEvent.type = "complete" =>
       \A b \in 1..Len(lastEvent.chunks) :
         \A n \in Range(lastEvent.chunks[b]) :
           IF Unrecoverable(lastEvent.kinds[b])
             THEN n \in DOMAIN categoryMap /\ categoryMap[n] = heuristicCategory(n)
             ELSE n \in DOMAIN lastEvent.kinds[b].obj
                    => n \in DOMAIN categoryMap /\ categoryMap[n] = lastEvent.kinds[b].obj[n]

\* the run of the last event has stopped with one more error message
RunStoppedWithError ==
  /\ lastEvent.run \notin ActiveRuns
  /\ errors = Append(lastEvent.errorsBefore, MsgApiError)

NeedsQuoting(s) == \E i \in 1..Len(s) : s[i] \in {",", "\"", "\n"}

\* s between double quotes, each double quote of s written twice
Quoted(s) ==
  <<"\"">>
    \o join([i \in 1..Len(s) |-> IF s[i] = "\"" THEN <<"\"", "\"">> ELSE <<s[i]>>], << >>)
    \o <<"\"">>

\* C8: csvEscape returns the field between double quotes with every double
\* quote doubled when the field holds a comma, a double quote or a newline,
\* the field itself otherwise, and the empty string for null and undefined.
CsvEscapeQuotingRule ==
  (probe.fn = "csvEscape" /\ ret.done) =>
    IF probe.arg = NULL THEN ret.value = << >>
    ELSE IF NeedsQuoting(probe.arg)
      THEN ret.value = Quoted(probe.arg) /\ Len(ret.value) > Len(probe.arg) + 1
    ELSE ret.value = probe.arg

QuoteAndCommaEscaped ==
  /\ probe.fn = "csvEscape"
  /\ ret.done
  /\ probe.arg = <<"a", "\"", ",">>
  /\ ret.value = <<"\"", "a", "\"", "\"", ",", "\"">>

\* decoding gave back one record whose only field is the encoded string
RoundTripRestores == Len(ret.value) = 1 /\ ret.value[1][kName] = probe.arg

\* the statement of C9 as written: a field with a comma, a double quote or a
\* newline comes back from csvEscape followed by fallbackParse as it was
RoundTripOfQuotedFields ==
  (probe.fn = "roundTrip" /\ ret.done /\ NeedsQuoting(probe.arg)) => RoundTripRestores

\* C9: csvEscape followed by fallbackParse gives back a single field equal to
\* the original exactly for the fields that are not empty, hold no comma,
\* double quote or newline, and neither start nor end with white space; no
\* field that csvEscape quotes comes back as it was.
RoundTripOfPlainFieldsOnly ==
  (probe.fn = "roundTrip" /\ ret.done) =>
    (RoundTripRestores <=>
       (probe.arg # << >> /\ ~NeedsQuoting(probe.arg) /\ trim(probe.arg) = probe.arg))

QuotedFieldComesBackSplit ==
  /\ probe.fn = "roundTrip"
  /\ ret.done
  /\ probe.arg = <<"a", ",", "a">>
  /\ Len(ret.value) = 1
  /\ ret.value[1][kName] = <<"\"", "a">>

\* the rules that follow the income, cash-withdrawal and transfer rules
MerchantRules ==
  { <<KwShopping, <<"S","h","o","p","p","i","n","g">>>>, <<KwGroceries, <<"G","r","o","c","e","r","i","e","s">>>>,
    <<KwRestaurants, <<"R","e","s","t","a","u","r","a","n","t","s">>>>, <<KwTransport, <<"T","r","a","n","s","p","o","r","t">>>>,
    <<KwEntertainment, <<"E","n","t","e","r","t","a","i","n","m","e","n","t">>>>, <<KwBills, <<"B","i","l","l","s">>>>,
    <<KwHousing, <<"H","o","u","s","i","n","g">>>>, <<KwHealth, <<"H","e","a","l","t","h">>>>, <<KwTravel, <<"T","r","a","v","e","l">>>>,
    <<KwFees, <<"F","e","e","s">>>> }

\* C10: heuristicCategory answers Income for a name with an income keyword,
\* else Cash Withdrawal for one with a cash keyword, else Transfers for one
\* with a transfer keyword, else the category of a merchant rule that
\* matches, and Other when no rule matches; the answer is one of the 14
\* categories; "Salary ACME" is Income, "Conad Superstore" Groceries and
\* "Uber" Transport.
HeuristicFirstMatchWins ==
  (probe.fn = "heuristicCategory" /\ ret.done) =>
    LET s == toLowerCase(IF probe.arg = NULL THEN << >> ELSE probe.arg)
        has(ks) == \E k \in ks : includes(s, k)
    IN /\ ret.value \in Range(categorySet)
       /\ Cardinality(Range(categorySet)) = 14
       /\ IF has(KwIncome) THEN ret.value = <<"I","n","c","o","m","e">>
          ELSE IF has(KwCashWithdrawal) THEN ret.value = <<"C","a","s","h"," ","W","i","t","h","d","r","a","w","a","l">>
          ELSE IF has(KwTransfers) THEN ret.value = <<"T","r","a","n","s","f","e","r","s">>
          ELSE IF \E r \in MerchantRules : has(r[1])
            THEN \E r \in MerchantRules : has(r[1]) /\ ret.value = r[2]
          ELSE ret.value = <<"O","t","h","e","r">>
       /\ (probe.arg = <<"S","a","l","a","r","y"," ","A","C","M","E">> => ret.value = <<"I","n","c","o","m","e">>)
       /\ (probe.arg = <<"C","o","n","a","d"," ","S","u","p","e","r","s","t","o","r","e">> => ret.value = <<"G","r","o","c","e","r","i","e","s">>)
       /\ (probe.arg = <<"U","b","e","r">> => ret.value = <<"T","r","a","n","s","p","o","r","t">>)

IncomeBeatsCashKeyword ==
  /\ probe.fn = "heuristicCategory"
  /\ ret.done
  /\ probe.arg = <<"S","a","l","a","r","y"," ","A","T","M">>
  /\ ret.value = <<"I","n","c","o","m","e">>

\* the first ten characters of the trimmed text are YYYY-MM-DD
HasCanonicalPrefix(text) ==
  /\ Len(trim(text)) >= 10
  /\ \A i \in 1..10 :
       IF i \in {5, 8} THEN trim(text)[i] = "-" ELSE trim(text)[i] \in Range(DigitChars)

\* C11: toISODate answers the first ten characters of the trimmed text when
\* they are YYYY-MM-DD; applied to its own answer it gives that answer again;
\* the empty text and a text that is no date give the empty string.
ToISODateIdempotent ==
  (probe.fn = "toISODate" /\ ret.done) =>
    /\ (HasCanonicalPrefix(probe.arg) => ret.value.once = SubSeq(trim(probe.arg), 1, 10))
    /\ ret.value.twice = ret.value.once
    /\ (probe.arg = << >> => ret.value.once = << >>)
    /\ ((~HasCanonicalPrefix(probe.arg) /\ ret.value.parsed = << >>)
          => ret.value.once = << >>)
    /\ (probe.arg = <<"2","0","2","5","-","0","8","-","0","1"," ","2","3",":","5","9",":","0","0">> => ret.value.once = <<"2","0","2","5","-","0","8","-","0","1">>)

DateWithTimeCutToDay ==
  /\ probe.fn = "toISODate"
  /\ ret.done
  /\ probe.arg = <<" ","2","0","2","5","-","0","8","-","0","1"," ","2","3",":","5","9",":","0","0">>
  /\ ret.value.once = <<"2","0","2","5","-","0","8","-","0","1">>
  /\ ret.value.twice = <<"2","0","2","5","-","0","8","-","0","1">>

\* the positions of the raw rows the completed-only setting oc keeps, the
\* State read without regard to letter case when exact is off
KeptRows(rows, oc, exact) ==
  {i \in 1..Len(rows) :
     /\ DOMAIN rows[i] # {}
     /\ oc => IF exact THEN FieldOr(rows[i], kState) = <<"C","O","M","P","L","E","T","E","D">>
              ELSE toUpperCase(FieldOr(rows[i], kState)) = toUpperCase(<<"C","O","M","P","L","E","T","E","D">>)}

\* kept is exactly the rows of rows at the positions idx, in their order, and
\* each has its normalized row
IsSelection(rows, idx, kept, normalized) ==
  LET nth(k) == CHOOSE i \in idx : Cardinality({j \in idx : j < i}) = k - 1
  IN /\ Len(kept) = Cardinality(idx)
     /\ \A k \in 1..Len(kept) : kept[k] = rows[nth(k)]
     /\ Len(normalized) = Len(kept)
     /\ \A k \in 1..Len(kept) :
          normalized[k][<<"N","a","m","e">>] = FieldOr(kept[k], kDescription)

\* the statement of C12 as written: with onlyCompleted on, filteredRows (and
\* with it the normalized rows) are exactly the raw rows whose State equals
\* "COMPLETED"; with it off no row is dropped for its State
CompletedOnlyExact ==
  IsSelection(rawRows, KeptRows(rawRows, onlyCompleted, TRUE), filteredRows, transformedAll)

\* C12: with onlyCompleted on, filteredRows (and with it the normalized rows)
\* are exactly the raw rows whose State is COMPLETED in any letter case, in
\* their order; every other row is dropped; with onlyCompleted off no row is
\* dropped for its State.
CompletedOnlyIgnoringCase ==
  /\ IsSelection(rawRows, KeptRows(rawRows, onlyCompleted, FALSE), filteredRows, transformedAll)
  /\ onlyCompleted =>
       \A k \in 1..Len(filteredRows) :
         toUpperCase(FieldOr(filteredRows[k], kState)) = <<"C","O","M","P","L","E","T","E","D">>
  /\ ~onlyCompleted => filteredRows = rawRows

LowerCaseStateKept ==
  /\ onlyCompleted
  /\ Len(rawRows) = 2
  /\ FieldOr(rawRows[1], kState) = <<"P","E","N","D","I","N","G">>
  /\ filteredRows = <<rawRows[2]>>
  /\ FieldOr(rawRows[2], kState) = <<"c","o","m","p","l","e","t","e","d">>

\* C13: a call of handleClassify without a key adds the error message that
\* asks for the key and changes nothing else: no request is sent, no run is
\* started, the category map and the raw rows stay; and the first request of
\* every run is sent with a key.
NoKeyNoRequest ==
  [][ /\ lastEvent'.type = "noKey" =>
           /\ apiKey = << >>
           /\ errors' = Append(errors, MsgNoKey)
           /\ runs' = runs
           /\ categoryMap' = categoryMap
           /\ rawRows' = rawRows
           /\ transformedAll' = transformedAll
      /\ (lastEvent'.type = "request" /\ lastEvent'.k = 1) => apiKey # << >> ]_vars

RefusedWithoutKey ==
  /\ lastEvent.type = "noKey"
  /\ apiKey = << >>
  /\ errors = <<MsgNoKey>>
  /\ runs = EmptyMap
  /\ rawRows # << >>
  /\ categoryMap # EmptyMap
  /\ categoryMap = lastEvent.mapBefore

\* what the reply of one batch adds to the result of its run
Contribution(chunk, kind) ==
  IF Unrecoverable(kind) THEN [n \in Range(chunk) |-> heuristicCategory(n)] ELSE kind.obj

\* map is the result of the run with these batches and replies: the
\* contributions of its batches, a later one overriding an earlier one
IsRunResult(map, chunks, kinds) ==
  /\ DOMAIN map = UNION {DOMAIN Contribution(chunks[b], kinds[b]) : b \in 1..Len(chunks)}
  /\ \A b \in 1..Len(chunks) :
       \A n \in DOMAIN Contribution(chunks[b], kinds[b]) :
         \/ map[n] = Contribution(chunks[b], kinds[b])[n]
         \/ \E later \in (b + 1)..Len(chunks) :
              n \in DOMAIN Contribution(chunks[later], kinds[later])

RequestsInFlight == {<<id, runs[id].k>> : id \in DOMAIN runs}

\* C15: at most one classifier request is in flight at any time, also when
\* Classify is clicked again while a run awaits a reply.
AtMostOneRequestInFlight == Cardinality(RequestsInFlight) <= 1

\* within one run the batches go out one at a time and in order: the first
\* request is the one of batch 1, and the request of batch k + 1 is issued by
\* the step that receives the reply to the request of batch k of the same run
BatchesInOrderWithinRun ==
  [][ lastEvent'.type = "request" =>
        LET id == lastEvent'.run
            k == lastEvent'.k
        IN /\ id \in DOMAIN runs' /\ runs'[id].k = k
           /\ k = 1 => id \notin DOMAIN runs
           /\ k > 1 => id \in DOMAIN runs /\ runs[id].k = k - 1
                       /\ runs'[id].chunks = runs[id].chunks ]_vars

\* two runs each await the reply to a request
TwoRequestsInFlight == Cardinality(RequestsInFlight) = 2

\* ------------------------------------------------------------------------
\* Late completion of a run begun before an upload or Reset
\* ------------------------------------------------------------------------
\* the names a completed run has produced entries for
ProducedBy(chunks, kinds) ==
  UNION {DOMAIN Contribution(chunks[i], kinds[i]) : i \in 1..Len(chunks)}

\* C16: when a run begun before an upload or Reset completes after it, the
\* category map holds no entry produced by that run: the completion leaves
\* the map as the upload or Reset (and whatever followed) made it.
NoStaleClassification ==
  [][ (lastEvent'.type = "complete" /\ lastEvent'.cleared) =>
        /\ categoryMap' = categoryMap
        /\ \A n \in ProducedBy(lastEvent'.chunks, lastEvent'.kinds) :
             n \notin DOMAIN categoryMap' ]_vars

\* a run begun before the map was emptied has completed and its entries are
\* in the category map
StaleEntriesInMap ==
  /\ lastEvent.type = "complete" /\ lastEvent.cleared
  /\ lastEvent.mapBefore = EmptyMap
  /\ ProducedBy(lastEvent.chunks, lastEvent.kinds) # {}
  /\ ProducedBy(lastEvent.chunks, lastEvent.kinds) \subseteq DOMAIN categoryMap
====
